---- MODULE Spec2Model ----
(***************************************************************************)
(* Model of ansible/scripts/deploy-goad-threaded.py: GOADDeployer.         *)
(*                                                                         *)
(* The main thread (deploy_all) parses the inventory, runs the three       *)
(* pre-stages one after the other, starts one thread per deployment box,   *)
(* joins them and prints the summary.  Every worker thread runs            *)
(* deploy_goad_on_box: it acquires the semaphore, loops over its attempts  *)
(* and releases the semaphore in its finally clause.                       *)
(*                                                                         *)
(* hist and sleeps are history variables: the outcomes of the remote job   *)
(* invocations of a box, in order, and the number of time.sleep(10) calls  *)
(* that have returned in its thread.  unlocked is a history variable too:  *)
(* the names of the DeploymentBox fields that a worker thread has assigned *)
(* at a point where it did not hold self.lock.  The code does not read     *)
(* them.                                                                   *)
(* warned records that a best-effort stage logged its warning.             *)
(*                                                                         *)
(* Time is not modelled beyond the order of steps: a timeout is an outcome *)
(* of subprocess.run and a delay is the step in which time.sleep returns.  *)
(* Writes to the log files and to the console are taken to succeed.        *)
(* FaultSpec lifts this for the except Exception handler of                *)
(* deploy_goad_on_box, whose own failure is a path the finally clause has  *)
(* to cover.                                                               *)
(***************************************************************************)
EXTENDS Integers, Sequences, FiniteSets

VARIABLES
    max_threads,       \* GOADDeployer.max_threads (--threads)
    max_retries,       \* GOADDeployer.max_retries (--retries)
    deployment_boxes,  \* number of DeploymentBox objects in self.deployment_boxes
    mainpc,            \* position of the main thread in main / deploy_all
    last_stage,        \* the pre-stage that ran last, "none" before the first
    stage_result,      \* outcome of that stage's subprocess.run (its local result)
    warned,            \* a stage has logged its "... but continuing" warning
    started,           \* number of threads deploy_all has started
    exit_code,         \* process exit code, -1 while the process runs
    summary,           \* the counts print_summary computed, <<>> before it ran
    semaphore,         \* free permits of self.semaphore
    lock,              \* holder of self.lock (a box), 0 when free
    pc,                \* position of each box's thread in deploy_goad_on_box
    status,            \* box.status
    attempts,          \* box.attempts (and the local attempt, assigned together)
    success,           \* the local success of deploy_goad_on_box
    start_time,        \* attempt in which box.start_time was assigned, 0 for None
    end_time,          \* box.end_time is not None
    output,            \* attempt whose stdout box.output holds, 0 for the initial []
    error_output,      \* attempt whose stderr box.error_output holds, 0 for the initial []
    log_file,          \* box.log_file is not None
    log,               \* records appended to box.log_file, in order
    hist,              \* history: outcomes of the box's remote job invocations
    sleeps,            \* history: backoff delays completed by the box's thread
    unlocked           \* history: box fields a thread has assigned outside self.lock

vars == <<max_threads, max_retries, deployment_boxes, mainpc, last_stage,
          stage_result, warned, started,
          exit_code, summary, semaphore, lock, pc, status, attempts, success,
          start_time, end_time, output, error_output, log_file, log, hist, sleeps,
          unlocked>>

stageVars == <<last_stage, stage_result, warned>>
mainVars == <<mainpc, stageVars, started, exit_code, summary>>
configVars == <<max_threads, max_retries, deployment_boxes>>
boxVars == <<status, attempts, success, start_time, end_time, output,
             error_output, log_file, log, hist, sleeps, unlocked>>

----------------------------------------------------------------------------
(* Bounds of the model *)

MaxBoxes == 2
MaxThreads == 2
MaxRetries == 2

----------------------------------------------------------------------------
(* Values *)

Terminal == {"success", "failed", "timeout", "error"}

\* What subprocess.run does for a pre-stage: returns 0, returns non-zero,
\* raises TimeoutExpired, raises FileNotFoundError, raises another Exception.
StageOutcomes == {"ok", "nonzero", "timeout", "notfound", "error"}

StageFailures == StageOutcomes \ {"ok"}

\* What subprocess.run does for the remote job: returns 0, returns non-zero,
\* raises TimeoutExpired, raises another Exception.
JobOutcomes == {"ok", "fail", "timeout", "raise"}

Boxes == 1..deployment_boxes

Last(s) == s[Len(s)]

----------------------------------------------------------------------------
(* Construction *)

\* GOADDeployer.__init__ with --threads k and --retries r.
InitWith(k, r) ==
    /\ max_threads = k
    /\ max_retries = r
    /\ deployment_boxes = 0
    /\ mainpc = "parse"
    /\ last_stage = "none"
    /\ stage_result = "none"
    /\ warned = FALSE
    /\ started = 0
    /\ exit_code = -1
    /\ summary = <<>>
    /\ semaphore = max_threads
    /\ lock = 0
    /\ pc = <<>>
    /\ status = <<>>
    /\ attempts = <<>>
    /\ success = <<>>
    /\ start_time = <<>>
    /\ end_time = <<>>
    /\ output = <<>>
    /\ error_output = <<>>
    /\ log_file = <<>>
    /\ log = <<>>
    /\ hist = <<>>
    /\ sleeps = <<>>
    /\ unlocked = {}

Init == \E k \in 1..MaxThreads : \E r \in 0..MaxRetries : InitWith(k, r)

----------------------------------------------------------------------------
(* The main thread: deploy_all *)

\* The bug of an exit code that reports the boxes that did not succeed.
ProcessExitCodeReportsBoxes ==
    IF \E b \in Boxes : status[b] # "success" THEN 1 ELSE 0

\* main returns after deployer.deploy_all(): the interpreter ends with code 0.
ProcessExitCode == 0

\* The bug of a deploy_all that goes on with an empty list of boxes.
ParseBoxesRunsStages(n) ==
    /\ deployment_boxes' = n
    /\ pc' = [b \in 1..n |-> "idle"]
    /\ status' = [b \in 1..n |-> "pending"]
    /\ attempts' = [b \in 1..n |-> 0]
    /\ success' = [b \in 1..n |-> FALSE]
    /\ start_time' = [b \in 1..n |-> 0]
    /\ end_time' = [b \in 1..n |-> FALSE]
    /\ output' = [b \in 1..n |-> 0]
    /\ error_output' = [b \in 1..n |-> 0]
    /\ log_file' = [b \in 1..n |-> FALSE]
    /\ log' = [b \in 1..n |-> <<>>]
    /\ hist' = [b \in 1..n |-> <<>>]
    /\ sleeps' = [b \in 1..n |-> 0]
    /\ unlocked' = unlocked
    /\ mainpc' = "activate"
    /\ exit_code' = exit_code

\* parse_inventory: the boxes of the inventory, each a fresh DeploymentBox;
\* a missing or unreadable inventory ends the process with sys.exit(1).
\* deploy_all returns at once when the list is empty.
ParseBoxes(n) ==
    /\ deployment_boxes' = n
    /\ pc' = [b \in 1..n |-> "idle"]
    /\ status' = [b \in 1..n |-> "pending"]
    /\ attempts' = [b \in 1..n |-> 0]
    /\ success' = [b \in 1..n |-> FALSE]
    /\ start_time' = [b \in 1..n |-> 0]
    /\ end_time' = [b \in 1..n |-> FALSE]
    /\ output' = [b \in 1..n |-> 0]
    /\ error_output' = [b \in 1..n |-> 0]
    /\ log_file' = [b \in 1..n |-> FALSE]
    /\ log' = [b \in 1..n |-> <<>>]
    /\ hist' = [b \in 1..n |-> <<>>]
    /\ sleeps' = [b \in 1..n |-> 0]
    /\ unlocked' = unlocked
    /\ mainpc' = IF n = 0 THEN "done" ELSE "activate"
    /\ exit_code' = IF n = 0 THEN ProcessExitCode ELSE exit_code

ParseInventory ==
    /\ mainpc = "parse"
    /\ \/ \E n \in 0..MaxBoxes : ParseBoxes(n)
       \/ /\ mainpc' = "exited"
          /\ exit_code' = 1
          /\ UNCHANGED <<deployment_boxes, pc, boxVars>>
    /\ UNCHANGED <<max_threads, max_retries, stageVars, started, summary, semaphore, lock>>

\* The bug of a best-effort stage that ends the process when it fails.
AfterActivateWindowsHostsAbort(r) == IF r = "ok" THEN "kali" ELSE "exited"

\* activate_windows_hosts returns True on every path, and deploy_all ignores
\* what it returns: the next stage follows whatever the outcome r.
AfterActivateWindowsHosts(r) == "kali"

ActivateWindowsHosts ==
    /\ mainpc = "activate"
    /\ \E r \in StageOutcomes :
        /\ last_stage' = "activate"
        /\ stage_result' = r
        /\ warned' = (warned \/ r # "ok")
        /\ mainpc' = AfterActivateWindowsHosts(r)
        /\ exit_code' = IF AfterActivateWindowsHosts(r) = "exited" THEN 1 ELSE exit_code
    /\ UNCHANGED <<configVars, started, summary, semaphore, lock, pc, boxVars>>

\* The bug of a fan-out that does not wait for the critical stage.
AfterPrepareKaliBoxesSkip(r) == "spawn"

\* prepare_kali_boxes returns True on every path as well.
AfterPrepareKaliBoxes(r) == "prepare"

PrepareKaliBoxes ==
    /\ mainpc = "kali"
    /\ \E r \in StageOutcomes :
        /\ last_stage' = "kali"
        /\ stage_result' = r
        /\ warned' = (warned \/ r # "ok")
        /\ mainpc' = AfterPrepareKaliBoxes(r)
        /\ exit_code' = IF AfterPrepareKaliBoxes(r) = "exited" THEN 1 ELSE exit_code
    /\ UNCHANGED <<configVars, started, summary, semaphore, lock, pc, boxVars>>

\* The bug of a critical stage whose failure is not fatal.
AfterPrepareDeploymentBoxesContinue(r) == "spawn"

\* prepare_deployment_boxes returns True when the playbook returns 0 and calls
\* sys.exit(1) on a non-zero return code and in every except clause.
AfterPrepareDeploymentBoxes(r) == IF r = "ok" THEN "spawn" ELSE "exited"

PrepareDeploymentBoxes ==
    /\ mainpc = "prepare"
    /\ \E r \in StageOutcomes :
        /\ last_stage' = "prepare"
        /\ stage_result' = r
        /\ warned' = warned
        /\ mainpc' = AfterPrepareDeploymentBoxes(r)
        /\ exit_code' = IF AfterPrepareDeploymentBoxes(r) = "exited" THEN 1 ELSE exit_code
    /\ UNCHANGED <<configVars, started, summary, semaphore, lock, pc, boxVars>>

\* One iteration of "for box in self.deployment_boxes": thread.start().
StartThread ==
    /\ mainpc = "spawn"
    /\ started < deployment_boxes
    /\ started' = started + 1
    /\ pc' = [pc EXCEPT ![started + 1] = "acquire"]
    /\ mainpc' = IF started + 1 = deployment_boxes THEN "join" ELSE "spawn"
    /\ UNCHANGED <<configVars, stageVars, exit_code, summary, semaphore, lock, boxVars>>

\* "for thread in threads: thread.join()" returns when every thread has ended.
Join ==
    /\ mainpc = "join"
    /\ \A b \in Boxes : pc[b] = "done"
    /\ mainpc' = "summary"
    /\ UNCHANGED <<configVars, stageVars, started, exit_code, summary, semaphore, lock,
                   pc, boxVars>>

Count(s) == Cardinality({b \in Boxes : status[b] = s})

RECURSIVE SumAttempts(_)
SumAttempts(n) == IF n = 0 THEN 0 ELSE attempts[n] + SumAttempts(n - 1)

\* print_summary, then deploy_all and main return: the process ends with 0.
PrintSummary ==
    /\ mainpc = "summary"
    /\ summary' = [success_count |-> Count("success"),
                   failed_count |-> Count("failed"),
                   timeout_count |-> Count("timeout"),
                   error_count |-> Count("error"),
                   total_attempts |-> SumAttempts(deployment_boxes),
                   retried_count |-> Cardinality({b \in Boxes : attempts[b] > 1})]
    /\ mainpc' = "done"
    /\ exit_code' = ProcessExitCode
    /\ UNCHANGED <<configVars, stageVars, started, semaphore, lock, pc, boxVars>>

----------------------------------------------------------------------------
(* The worker threads: deploy_goad_on_box(box) *)

\* The bug of a loop that starts over after a timeout was made terminal.
LoopTestAgainAfterTimeout(b, succ, w) ==
    IF attempts[b] < max_retries \/ (pc[b] = "lockTimeout" /\ max_retries > 0)
    THEN /\ attempts' = [attempts EXCEPT ![b] = @ + 1]
         /\ unlocked' = unlocked \cup w \cup {"attempts"}
         /\ pc' = [pc EXCEPT ![b] = "lockRun"]
    ELSE /\ attempts' = attempts
         /\ unlocked' = unlocked \cup w
         /\ pc' = [pc EXCEPT ![b] = "finally"]

\* The bug of an acquire that never blocks.
CanAcquireAlways == TRUE

\* threading.Semaphore.acquire blocks while no permit is free.
CanAcquire == semaphore > 0

\* The bug of a loop test that is off by one.
LoopConditionInclusive(b, succ) == attempts[b] <= max_retries /\ ~succ

\* The bug of a loop that goes on after a successful attempt.
LoopConditionIgnoresSuccess(b, succ) == attempts[b] < max_retries

\* while attempt < self.max_retries and not success, with the value succ of
\* the local success.
LoopCondition(b, succ) == attempts[b] < max_retries /\ ~succ

\* The loop test and, when it holds, attempt += 1 and box.attempts = attempt;
\* when it fails the try block ends and the finally clause follows.  The test
\* and the two assignments touch only what the thread owns, so they are taken
\* in the same step as the statement before them.  The thread holds no lock
\* at line 398; w names the fields that the statement before assigned
\* outside the lock.
LoopTest(b, succ, w) ==
    IF LoopCondition(b, succ)
    THEN /\ attempts' = [attempts EXCEPT ![b] = @ + 1]
         /\ unlocked' = unlocked \cup w \cup {"attempts"}
         /\ pc' = [pc EXCEPT ![b] = "lockRun"]
    ELSE /\ attempts' = attempts
         /\ unlocked' = unlocked \cup w
         /\ pc' = [pc EXCEPT ![b] = "finally"]

\* self.semaphore.acquire(), then box.log_file and the locals success = False,
\* attempt = 0 (the values the box was created with).
Acquire(b) ==
    /\ pc[b] = "acquire"
    /\ CanAcquire
    /\ semaphore' = semaphore - 1
    /\ log_file' = [log_file EXCEPT ![b] = TRUE]
    /\ LoopTest(b, FALSE, {"log_file"})
    /\ UNCHANGED <<configVars, mainVars, lock, status, success, start_time,
                   end_time, output, error_output, log, hist, sleeps>>

\* The bug of an attempt that assigns box.start_time even when it is set.
StartAttemptRestamps(b) ==
    /\ pc[b] = "lockRun"
    /\ lock = 0
    /\ status' = [status EXCEPT ![b] = "running"]
    /\ start_time' = [start_time EXCEPT ![b] = attempts[b]]
    /\ pc' = [pc EXCEPT ![b] = "job"]
    /\ UNCHANGED <<configVars, mainVars, semaphore, lock, attempts, success, end_time,
                   output, error_output, log_file, log, hist, sleeps, unlocked>>

\* The bug of an attempt that starts without taking the lock.
StartAttemptUnlocked(b) ==
    /\ pc[b] = "lockRun"
    /\ status' = [status EXCEPT ![b] = "running"]
    /\ start_time' = [start_time EXCEPT ![b] = IF @ = 0 THEN attempts[b] ELSE @]
    /\ unlocked' = unlocked \cup {"status", "start_time"}
    /\ pc' = [pc EXCEPT ![b] = "job"]
    /\ UNCHANGED <<configVars, mainVars, semaphore, lock, attempts, success, end_time,
                   output, error_output, log_file, log, hist, sleeps>>

\* The bug of an attempt that starts without marking the box "running".
StartAttemptKeepsStatus(b) ==
    /\ pc[b] = "lockRun"
    /\ lock = 0
    /\ start_time' = [start_time EXCEPT ![b] = IF @ = 0 THEN attempts[b] ELSE @]
    /\ pc' = [pc EXCEPT ![b] = "job"]
    /\ UNCHANGED <<configVars, mainVars, semaphore, lock, status, attempts, success,
                   end_time, output, error_output, log_file, log, hist, sleeps,
                   unlocked>>

\* with self.lock: box.status = "running"; box.start_time set when it is None.
\* The block does not block, so taking and releasing the lock is one step.
StartAttempt(b) ==
    /\ pc[b] = "lockRun"
    /\ lock = 0
    /\ status' = [status EXCEPT ![b] = "running"]
    /\ start_time' = [start_time EXCEPT ![b] = IF @ = 0 THEN attempts[b] ELSE @]
    /\ pc' = [pc EXCEPT ![b] = "job"]
    /\ UNCHANGED <<configVars, mainVars, semaphore, lock, attempts, success, end_time,
                   output, error_output, log_file, log, hist, sleeps, unlocked>>

\* The bug of an invocation error handled like a non-zero exit.
JobNextPcRetryRaise(o) ==
    CASE o \in {"ok", "fail", "raise"} -> "lockResult"
      [] o = "timeout" -> "lockTimeout"

\* Where control goes after subprocess.run: on return, the attempt's record is
\* written and the result handled under the lock; TimeoutExpired goes to the
\* inner except clause; any other exception leaves the loop for the outer
\* except Exception clause.
JobNextPc(o) ==
    CASE o \in {"ok", "fail"} -> "lockResult"
      [] o = "timeout" -> "lockTimeout"
      [] o = "raise" -> "except"

\* The bug of a returned attempt that leaves no record in the log file.
RunJobNoRecord(b, o) ==
    /\ pc[b] = "job"
    /\ hist' = [hist EXCEPT ![b] = Append(@, o)]
    /\ pc' = [pc EXCEPT ![b] = JobNextPc(o)]
    /\ UNCHANGED <<configVars, mainVars, semaphore, lock, status, attempts, success,
                   start_time, end_time, output, error_output, log_file, log, sleeps,
                   unlocked>>

\* subprocess.run(ssh_cmd, timeout=7200) ends with outcome o.  When it returns,
\* the attempt's record is appended to box.log_file (outside the lock).
RunJob(b, o) ==
    /\ pc[b] = "job"
    /\ hist' = [hist EXCEPT ![b] = Append(@, o)]
    /\ log' = [log EXCEPT ![b] = IF JobNextPc(o) = "lockResult"
                                 THEN Append(@, "attempt") ELSE @]
    /\ pc' = [pc EXCEPT ![b] = JobNextPc(o)]
    /\ UNCHANGED <<configVars, mainVars, semaphore, lock, status, attempts, success,
                   start_time, end_time, output, error_output, log_file, sleeps,
                   unlocked>>

\* The bug of a box that is never retried.
ShouldRetryNever(b) == FALSE

\* The bug of a retry test that is off by one.
ShouldRetryInclusive(b) == attempts[b] <= max_retries

\* if attempt < self.max_retries (after a non-zero exit and after a timeout)
ShouldRetry(b) == attempts[b] < max_retries

\* The bug of a final status that depends on how many permits are taken.
TimeoutStatusByLoad == IF semaphore = 0 THEN "failed" ELSE "timeout"

\* The bug of a timeout reported as a failure.
TimeoutStatusFailed == "failed"

\* The terminal status the inner except subprocess.TimeoutExpired clause sets.
TimeoutStatus == "timeout"

\* The bug of a retry without the delay: the lock is released and the loop
\* continues at once.
RecordResultNoSleep(b) ==
    /\ pc[b] = "lockResult"
    /\ lock = 0
    /\ end_time' = [end_time EXCEPT ![b] = TRUE]
    /\ IF Last(hist[b]) = "ok"
       THEN /\ status' = [status EXCEPT ![b] = "success"]
            /\ success' = [success EXCEPT ![b] = TRUE]
            /\ UNCHANGED error_output
       ELSE /\ error_output' = [error_output EXCEPT ![b] = attempts[b]]
            /\ status' = IF ShouldRetry(b) THEN status
                         ELSE [status EXCEPT ![b] = "failed"]
            /\ UNCHANGED success
    /\ output' = [output EXCEPT ![b] = attempts[b]]
    /\ LoopTest(b, success'[b], {})
    /\ UNCHANGED <<configVars, mainVars, semaphore, lock, start_time, log_file, log,
                   hist, sleeps>>

\* with self.lock (line 447): box.end_time; return code 0 gives "success";
\* otherwise box.error_output, and either the retry branch, which calls
\* time.sleep(10) inside the with block (the lock stays held), or "failed".
\* box.output is assigned at the end of the block, after the sleep if any.
RecordResult(b) ==
    /\ pc[b] = "lockResult"
    /\ lock = 0
    /\ end_time' = [end_time EXCEPT ![b] = TRUE]
    /\ IF Last(hist[b]) = "ok"
       THEN /\ status' = [status EXCEPT ![b] = "success"]
            /\ success' = [success EXCEPT ![b] = TRUE]
            /\ output' = [output EXCEPT ![b] = attempts[b]]
            /\ LoopTest(b, TRUE, {})
            /\ UNCHANGED <<error_output, lock>>
       ELSE /\ error_output' = [error_output EXCEPT ![b] = attempts[b]]
            /\ IF ShouldRetry(b)
               THEN /\ lock' = b
                    /\ pc' = [pc EXCEPT ![b] = "sleep"]
                    /\ UNCHANGED <<status, output, attempts, unlocked>>
               ELSE /\ status' = [status EXCEPT ![b] = "failed"]
                    /\ output' = [output EXCEPT ![b] = attempts[b]]
                    /\ LoopTest(b, success[b], {})
                    /\ UNCHANGED lock
            /\ UNCHANGED success
    /\ UNCHANGED <<configVars, mainVars, semaphore, start_time, log_file, log, hist,
                   sleeps>>

\* The bug of a final timeout that leaves box.end_time alone.
RecordTimeoutNoEndTime(b) ==
    /\ pc[b] = "lockTimeout"
    /\ lock = 0
    /\ log' = [log EXCEPT ![b] = Append(@, "timeout")]
    /\ IF ShouldRetry(b)
       THEN /\ lock' = b
            /\ pc' = [pc EXCEPT ![b] = "sleep"]
            /\ UNCHANGED <<status, attempts, unlocked>>
       ELSE /\ status' = [status EXCEPT ![b] = TimeoutStatus]
            /\ LoopTest(b, success[b], {})
            /\ UNCHANGED lock
    /\ UNCHANGED <<configVars, mainVars, semaphore, success, start_time, end_time,
                   output, error_output, log_file, hist, sleeps>>

\* except subprocess.TimeoutExpired, with self.lock (line 477): the TIMEOUT
\* record; then the retry branch with time.sleep(10) inside the with block,
\* or "timeout" and box.end_time.
RecordTimeout(b) ==
    /\ pc[b] = "lockTimeout"
    /\ lock = 0
    /\ log' = [log EXCEPT ![b] = Append(@, "timeout")]
    /\ IF ShouldRetry(b)
       THEN /\ lock' = b
            /\ pc' = [pc EXCEPT ![b] = "sleep"]
            /\ UNCHANGED <<status, end_time, attempts, unlocked>>
       ELSE /\ status' = [status EXCEPT ![b] = TimeoutStatus]
            /\ end_time' = [end_time EXCEPT ![b] = TRUE]
            /\ LoopTest(b, success[b], {})
            /\ UNCHANGED lock
    /\ UNCHANGED <<configVars, mainVars, semaphore, success, start_time, output,
                   error_output, log_file, hist, sleeps>>

\* time.sleep(10) returns; the with block ends (after box.output on the
\* non-zero-exit path) and releases the lock; the loop continues.
Backoff(b) ==
    /\ pc[b] = "sleep"
    /\ lock = b
    /\ sleeps' = [sleeps EXCEPT ![b] = @ + 1]
    /\ output' = [output EXCEPT ![b] = IF Last(hist[b]) = "fail" THEN attempts[b] ELSE @]
    /\ lock' = 0
    /\ LoopTest(b, success[b], {})
    /\ UNCHANGED <<configVars, mainVars, semaphore, status, success, start_time,
                   end_time, error_output, log_file, log, hist>>

\* The bug of an invocation error that only uses up one attempt.
HandleErrorRetries(b) ==
    /\ pc[b] = "except"
    /\ lock = 0
    /\ status' = [status EXCEPT ![b] = "error"]
    /\ end_time' = [end_time EXCEPT ![b] = TRUE]
    /\ log' = [log EXCEPT ![b] = Append(@, "exception")]
    /\ LoopTest(b, success[b], {})
    /\ UNCHANGED <<configVars, mainVars, semaphore, lock, success,
                   start_time, output, error_output, log_file, hist, sleeps>>

\* except Exception, with self.lock (line 497): "error", box.end_time and the
\* EXCEPTION record (box.log_file is set by then); the finally clause follows.
HandleError(b) ==
    /\ pc[b] = "except"
    /\ lock = 0
    /\ status' = [status EXCEPT ![b] = "error"]
    /\ end_time' = [end_time EXCEPT ![b] = TRUE]
    /\ log' = [log EXCEPT ![b] = Append(@, "exception")]
    /\ pc' = [pc EXCEPT ![b] = "finally"]
    /\ UNCHANGED <<configVars, mainVars, semaphore, lock, attempts, success,
                   start_time, output, error_output, log_file, hist, sleeps, unlocked>>

\* The bug of a handler whose own exception skips the finally clause.
HandleErrorRaisesSkipsFinally(b) ==
    /\ pc[b] = "except"
    /\ lock = 0
    /\ status' = [status EXCEPT ![b] = "error"]
    /\ end_time' = [end_time EXCEPT ![b] = TRUE]
    /\ pc' = [pc EXCEPT ![b] = "done"]
    /\ UNCHANGED <<configVars, mainVars, semaphore, lock, attempts, success,
                   start_time, output, error_output, log_file, log, hist, sleeps,
                   unlocked>>

\* The handler itself raises, at the latest in its write to the log file
\* (lines 501-511), after it has assigned the status and box.end_time: the
\* record is missing, the with block releases the lock and the finally clause
\* runs all the same, before the exception ends the thread.
HandleErrorRaises(b) ==
    /\ pc[b] = "except"
    /\ lock = 0
    /\ status' = [status EXCEPT ![b] = "error"]
    /\ end_time' = [end_time EXCEPT ![b] = TRUE]
    /\ pc' = [pc EXCEPT ![b] = "finally"]
    /\ UNCHANGED <<configVars, mainVars, semaphore, lock, attempts, success,
                   start_time, output, error_output, log_file, log, hist, sleeps,
                   unlocked>>

\* The bug of a thread that ends without giving its permit back.
ReleaseKeepsPermit(b) ==
    /\ pc[b] = "finally"
    /\ pc' = [pc EXCEPT ![b] = "done"]
    /\ UNCHANGED <<configVars, mainVars, semaphore, lock, boxVars>>

\* finally: self.semaphore.release(); the thread ends.
Release(b) ==
    /\ pc[b] = "finally"
    /\ semaphore' = semaphore + 1
    /\ pc' = [pc EXCEPT ![b] = "done"]
    /\ UNCHANGED <<configVars, mainVars, lock, boxVars>>

----------------------------------------------------------------------------
(* Specification *)

Next ==
    \/ ParseInventory
    \/ ActivateWindowsHosts
    \/ PrepareKaliBoxes
    \/ PrepareDeploymentBoxes
    \/ StartThread
    \/ Join
    \/ PrintSummary
    \/ \E b \in Boxes : Acquire(b)
    \/ \E b \in Boxes : StartAttempt(b)
    \/ \E b \in Boxes : \E o \in JobOutcomes : RunJob(b, o)
    \/ \E b \in Boxes : RecordResult(b)
    \/ \E b \in Boxes : RecordTimeout(b)
    \/ \E b \in Boxes : Backoff(b)
    \/ \E b \in Boxes : HandleError(b)
    \/ \E b \in Boxes : Release(b)

Spec == Init /\ [][Next]_vars

\* The example run: five boxes in the inventory, --threads 2, --retries 3;
\* the job of boxes 1 to 3 returns 0 at once, the job of box 4 returns
\* non-zero twice and then 0, the job of box 5 always returns non-zero.
ExampleInit == InitWith(2, 3)

ExampleParseInventory ==
    /\ mainpc = "parse"
    /\ ParseBoxes(5)
    /\ UNCHANGED <<max_threads, max_retries, stageVars, started, summary, semaphore, lock>>

ExampleOutcome(b) ==
    CASE b \in 1..3 -> "ok"
      [] b = 4 -> IF attempts[b] < 3 THEN "fail" ELSE "ok"
      [] b = 5 -> "fail"

ExampleNext ==
    \/ ExampleParseInventory
    \/ ActivateWindowsHosts
    \/ PrepareKaliBoxes
    \/ PrepareDeploymentBoxes
    \/ StartThread
    \/ Join
    \/ PrintSummary
    \/ \E b \in Boxes : Acquire(b)
    \/ \E b \in Boxes : StartAttempt(b)
    \/ \E b \in Boxes : RunJob(b, ExampleOutcome(b))
    \/ \E b \in Boxes : RecordResult(b)
    \/ \E b \in Boxes : Backoff(b)
    \/ \E b \in Boxes : Release(b)

ExampleSpec == ExampleInit /\ [][ExampleNext]_vars

\* The program when the exception handler of deploy_goad_on_box may itself
\* raise.
FaultNext ==
    \/ Next
    \/ \E b \in Boxes : HandleErrorRaises(b)

FaultSpec == Init /\ [][FaultNext]_vars

\* The program run with --threads 1 --retries 3: a retry budget deep enough
\* for an attempt that is neither the first nor the last.
DeepRetrySpec == InitWith(1, 3) /\ [][Next]_vars

\* The steps of the main thread and of the thread of box b.
Main ==
    \/ ParseInventory
    \/ ActivateWindowsHosts
    \/ PrepareKaliBoxes
    \/ PrepareDeploymentBoxes
    \/ StartThread
    \/ Join
    \/ PrintSummary

Worker(b) ==
    /\ b \in Boxes
    /\ \/ Acquire(b)
       \/ StartAttempt(b)
       \/ \E o \in JobOutcomes : RunJob(b, o)
       \/ RecordResult(b)
       \/ RecordTimeout(b)
       \/ Backoff(b)
       \/ HandleError(b)
       \/ Release(b)

\* The same program under a fair scheduler: a thread that can take a step
\* eventually takes one.  subprocess.run ends (it is called with a timeout)
\* and time.sleep returns, so a thread in either of them can take a step.
FairSpec ==
    /\ Init
    /\ [][Next]_vars
    /\ WF_vars(Main)
    /\ \A b \in 1..MaxBoxes : WF_vars(Worker(b))

----------------------------------------------------------------------------
(* Vocabulary of the properties *)

\* The box's thread has acquired a permit of the semaphore and not released it.
Holding(b) == pc[b] \in {"lockRun", "job", "lockResult", "lockTimeout", "sleep",
                        "except", "finally"}

Holders == {b \in Boxes : Holding(b)}

\* Every remote job invocation of the box so far had outcome o, and there was one.
Always(b, o) == hist[b] # <<>> /\ \A i \in 1..Len(hist[b]) : hist[b][i] = o

\* deploy_all is past its join.
Joined == mainpc \in {"summary", "done"} /\ deployment_boxes > 0

----------------------------------------------------------------------------
(* C1 *)

\* C1: in every reachable state the number of worker threads that have
\* acquired the semaphore and not yet released it is at most max_threads.
C1_AdmissionBound == Cardinality(Holders) <= max_threads

\* All permits are taken and another thread is blocked in acquire().
C1_Witness ==
    /\ Cardinality(Holders) = max_threads
    /\ semaphore = 0
    /\ \E b \in Boxes : pc[b] = "acquire"

----------------------------------------------------------------------------
(* C2 *)

\* C2: when deploy_all has passed its join and calls print_summary, the status
\* of every box is one of success, failed, timeout, error; for every
\* max_threads >= 1 and every max_retries >= 0.
C2_TerminalAtSummary ==
    mainpc = "summary" => \A b \in Boxes : status[b] \in Terminal

----------------------------------------------------------------------------
(* C3 *)

\* C3: a box whose remote job returns a non-zero exit code on every attempt is
\* never attempted more than max_retries times, and when its thread has ended
\* it was attempted exactly max_retries times, box.attempts is max_retries and
\* its status is failed.
C3_AlwaysFailing ==
    \A b \in Boxes :
        Always(b, "fail") =>
            /\ Len(hist[b]) <= max_retries
            /\ pc[b] = "done" =>
                /\ Len(hist[b]) = max_retries
                /\ attempts[b] = max_retries
                /\ status[b] = "failed"

\* A box has failed twice, with two retries allowed, and its thread has ended.
C3_Witness ==
    \E b \in Boxes :
        /\ pc[b] = "done"
        /\ hist[b] = <<"fail", "fail">>
        /\ status[b] = "failed"

----------------------------------------------------------------------------
(* C4 *)

\* C4: a box whose remote job times out on every attempt never has status
\* failed, is never attempted more than max_retries times, and when its thread
\* has ended it was attempted exactly max_retries times, box.attempts is
\* max_retries and its status is timeout.
C4_AlwaysTimingOut ==
    \A b \in Boxes :
        Always(b, "timeout") =>
            /\ Len(hist[b]) <= max_retries
            /\ status[b] # "failed"
            /\ pc[b] = "done" =>
                /\ Len(hist[b]) = max_retries
                /\ attempts[b] = max_retries
                /\ status[b] = "timeout"

\* A box has timed out twice, with two retries allowed, and its thread has ended.
C4_Witness ==
    \E b \in Boxes :
        /\ pc[b] = "done"
        /\ hist[b] = <<"timeout", "timeout">>
        /\ status[b] = "timeout"

----------------------------------------------------------------------------
(* C5 *)

\* C5: a box whose first remote job invocation raises an unexpected error is
\* attempted exactly once: no second invocation and no backoff delay follows,
\* box.attempts stays 1, and from the except clause on its status is error.
C5_ErrorNotRetried ==
    \A b \in Boxes :
        (hist[b] # <<>> /\ hist[b][1] = "raise") =>
            /\ Len(hist[b]) = 1
            /\ attempts[b] = 1
            /\ sleeps[b] = 0
            /\ pc[b] \in {"except", "finally", "done"}
            /\ pc[b] \in {"finally", "done"} => status[b] = "error"

\* The invocation raised although a retry was left, and the thread has ended.
C5_Witness ==
    \E b \in Boxes :
        /\ pc[b] = "done"
        /\ hist[b] = <<"raise">>
        /\ max_retries = 2
        /\ status[b] = "error"

----------------------------------------------------------------------------
(* C6 *)

\* C6: a box that exits non-zero on attempt 1 does not start attempt 2 before a
\* backoff delay has completed, a delay never completes before the attempt it
\* follows has ended, and when attempt 2 exits zero the box ends with status
\* success after exactly two attempts.
C6_FailThenSucceed ==
    \A b \in Boxes :
        /\ sleeps[b] <= Len(hist[b])
        /\ (hist[b] # <<>> /\ hist[b][1] = "fail" /\ attempts[b] >= 2) => sleeps[b] >= 1
        /\ (Len(hist[b]) >= 2 /\ hist[b][1] = "fail" /\ hist[b][2] = "ok") =>
            /\ Len(hist[b]) = 2
            /\ attempts[b] = 2
            /\ sleeps[b] = 1
            /\ pc[b] \in {"finally", "done"} => status[b] = "success"

\* A box failed, waited, succeeded, and its thread has ended.
C6_Witness ==
    \E b \in Boxes :
        /\ pc[b] = "done"
        /\ hist[b] = <<"fail", "ok">>
        /\ sleeps[b] = 1
        /\ status[b] = "success"

----------------------------------------------------------------------------
(* C7 *)

\* C7: when prepare_deployment_boxes' playbook returns non-zero, times out or
\* cannot be invoked, the process has exited with code 1 and no thread was
\* started: every box is pending with no attempt and every permit is free.
C7_CriticalStageAborts ==
    (last_stage = "prepare" /\ stage_result \in StageFailures) =>
        /\ mainpc = "exited"
        /\ exit_code = 1
        /\ started = 0
        /\ semaphore = max_threads
        /\ \A b \in Boxes :
            pc[b] = "idle" /\ status[b] = "pending" /\ attempts[b] = 0

\* The critical stage timed out with two boxes in the inventory.
C7_Witness ==
    /\ last_stage = "prepare"
    /\ stage_result = "timeout"
    /\ deployment_boxes = 2
    /\ mainpc = "exited"

----------------------------------------------------------------------------
(* C8 *)

\* C8: a failure of activate_windows_hosts or prepare_kali_boxes does not end
\* the process: the next stage is the one to run; and when a best-effort stage
\* has failed and the critical stage succeeded, the process has not exited and
\* at the join one thread has been started for every box.
C8_BestEffortContinues ==
    /\ (last_stage = "activate" /\ stage_result \in StageFailures) =>
            mainpc = "kali" /\ exit_code = -1
    /\ (last_stage = "kali" /\ stage_result \in StageFailures) =>
            mainpc = "prepare" /\ exit_code = -1
    /\ (warned /\ last_stage = "prepare" /\ stage_result = "ok") =>
            /\ mainpc \in {"spawn", "join", "summary", "done"}
            /\ started <= deployment_boxes
            /\ \A b \in Boxes : pc[b] = "idle" <=> b > started
            /\ mainpc # "spawn" => started = deployment_boxes

\* A best-effort stage failed and deploy_all waits in join for its two threads.
C8_Witness ==
    /\ warned
    /\ mainpc = "join"
    /\ deployment_boxes = 2
    /\ \A b \in Boxes : pc[b] # "idle"

----------------------------------------------------------------------------
(* C9 *)

\* C9: the four counts print_summary computes add up to the number of boxes.
C9_CountsExhaustive ==
    summary # <<>> =>
        summary.success_count + summary.failed_count + summary.timeout_count
            + summary.error_count = deployment_boxes

----------------------------------------------------------------------------
(* C10 *)

\* C10: a thread that holds a permit gives it up only by ending, it never
\* acquires again, and when it gives the permit up the status of its box is
\* one of success, failed, timeout, error.
C10_SlotHeldUntilTerminal ==
    [][\A b \in Boxes :
        /\ (Holding(b) /\ pc'[b] # pc[b] /\ pc'[b] \notin {"lockRun", "job",
                "lockResult", "lockTimeout", "sleep", "except", "finally"}) =>
                (pc'[b] = "done" /\ status[b] \in Terminal)
        /\ pc[b] = "done" => pc'[b] = "done"]_vars

----------------------------------------------------------------------------
(* C11 *)

\* C11 as stated: the exit code is 0 when the critical stage succeeded and the
\* run completed, and it is non-zero only when the critical stage failed.
C11_ExitCodeOriginal ==
    /\ (last_stage = "prepare" /\ stage_result = "ok" /\ mainpc = "done") =>
            exit_code = 0
    /\ exit_code \notin {-1, 0} =>
            (last_stage = "prepare" /\ stage_result \in StageFailures)

\* C11 amended: the exit code is 0 when the critical stage succeeded and the
\* run completed, whatever the statuses of the boxes; it is non-zero only when
\* the critical stage failed or when parse_inventory could not read the
\* inventory (before any stage ran).
C11_ExitCode ==
    /\ (last_stage = "prepare" /\ stage_result = "ok" /\ mainpc = "done") =>
            exit_code = 0
    /\ exit_code \notin {-1, 0} =>
            /\ mainpc = "exited"
            /\ \/ last_stage = "prepare" /\ stage_result \in StageFailures
               \/ last_stage = "none" /\ deployment_boxes = 0

\* The run completed with exit code 0 and no box succeeded.
C11_Witness ==
    /\ mainpc = "done"
    /\ exit_code = 0
    /\ deployment_boxes = 2
    /\ status[1] = "failed"
    /\ status[2] = "error"

----------------------------------------------------------------------------
(* C12 *)

\* The order in which the main thread moves through deploy_all.
MainOrder ==
    {<<"parse", "activate">>, <<"parse", "done">>, <<"parse", "exited">>,
     <<"activate", "kali">>, <<"kali", "prepare">>, <<"prepare", "spawn">>,
     <<"prepare", "exited">>, <<"spawn", "join">>, <<"join", "summary">>,
     <<"summary", "done">>}

\* C12: the main thread runs activate_windows_hosts, prepare_kali_boxes and
\* prepare_deployment_boxes in this order, each at its own position and once
\* (a stage's run moves the main thread on); no thread takes a step, no box
\* changes status and no permit is taken before the last stage has ended;
\* threads are started one per box, and past the fan-out loop every box has
\* had its thread started.
C12_StagesThenFanOut ==
    [][/\ mainpc' # mainpc => <<mainpc, mainpc'>> \in MainOrder
       /\ (last_stage' # last_stage \/ stage_result' # stage_result) =>
            /\ mainpc \in {"activate", "kali", "prepare"}
            /\ last_stage' = mainpc
            /\ mainpc' # mainpc
       /\ \A b \in Boxes :
            (pc'[b] # pc[b] \/ status'[b] # status[b]) =>
                (last_stage = "prepare" /\ stage_result = "ok"
                    /\ mainpc \in {"spawn", "join"})
       /\ semaphore' # semaphore => (last_stage = "prepare" /\ stage_result = "ok")
       /\ started' # started =>
            /\ mainpc = "spawn"
            /\ started' = started + 1
            /\ pc[started'] = "idle"
            /\ pc'[started'] = "acquire"
       /\ \A b \in Boxes :
            /\ pc[b] # "idle" => pc'[b] # "idle"
            /\ (pc[b] = "idle" /\ pc'[b] # "idle") => (b = started' /\ started' # started)
       /\ (mainpc' \in {"join", "summary", "done"} /\ deployment_boxes' > 0) =>
            started' = deployment_boxes'
      ]_vars

\* The three stages have run and both threads were started and have ended.
C12_Witness ==
    /\ mainpc = "summary"
    /\ last_stage = "prepare"
    /\ deployment_boxes = 2
    /\ started = 2

----------------------------------------------------------------------------
(* C13 *)

\* C13: with max_retries >= 1, once deploy_all has reached its fan-out loop,
\* under fair scheduling the run eventually ends with every box in a terminal
\* status, every thread ended, every permit back, the join passed and the
\* summary emitted.
C13_FanOutTerminates ==
    (mainpc = "spawn" /\ max_retries >= 1) ~>
        /\ mainpc = "done"
        /\ summary # <<>>
        /\ semaphore = max_threads
        /\ lock = 0
        /\ \A b \in Boxes : pc[b] = "done" /\ status[b] \in Terminal

\* Two boxes shared one permit, both went through a backoff delay, and the run
\* has ended.
C13_Witness ==
    /\ mainpc = "done"
    /\ summary # <<>>
    /\ max_threads = 1
    /\ deployment_boxes = 2
    /\ sleeps[1] >= 1
    /\ sleeps[2] >= 1

----------------------------------------------------------------------------
(* C14 *)

\* C14: in the example run (five boxes, two threads, three retries; boxes 1
\* to 3 succeed at once, box 4 fails twice and then succeeds, box 5 always
\* fails) every interleaving that completes ends with boxes 1 to 3 "success"
\* after one attempt, box 4 "success" after three, box 5 "failed" after three,
\* and a summary of 4 successes, 1 failure, no timeout, no error, 9 attempts
\* in total and 2 boxes that needed a retry.
C14_ExampleRun ==
    mainpc = "done" =>
        /\ \A b \in 1..3 : status[b] = "success" /\ attempts[b] = 1
        /\ status[4] = "success" /\ attempts[4] = 3
        /\ status[5] = "failed" /\ attempts[5] = 3
        /\ summary = [success_count |-> 4, failed_count |-> 1, timeout_count |-> 0,
                      error_count |-> 0, total_attempts |-> 9, retried_count |-> 2]

\* The example run has completed.
C14_Witness ==
    /\ mainpc = "done"
    /\ deployment_boxes = 5
    /\ max_threads = 2
    /\ max_retries = 3
    /\ hist[4] = <<"fail", "fail", "ok">>
    /\ hist[5] = <<"fail", "fail", "fail">>
    /\ summary # <<>>

----------------------------------------------------------------------------
(* C15 *)

\* C15 as stated: for every box, box.end_time is set if and only if the
\* status is terminal.
C15_EndTimeOriginal ==
    \A b \in Boxes : end_time[b] <=> status[b] \in Terminal

\* C15: box.end_time is set whenever the status is terminal and never while it
\* is "pending"; while the status is "running" it is set exactly when an
\* earlier attempt of the box returned non-zero (box.error_output is then
\* non-empty), that is, from the first non-zero exit that is retried.
C15_EndTime ==
    \A b \in Boxes :
        /\ status[b] \in Terminal => end_time[b]
        /\ status[b] = "pending" => ~end_time[b]
        /\ status[b] = "running" => (end_time[b] <=> error_output[b] # 0)

\* A box whose second attempt is running after a non-zero exit, with
\* box.end_time set by the first.
C15_Witness ==
    \E b \in Boxes :
        /\ pc[b] = "job"
        /\ status[b] = "running"
        /\ attempts[b] = 2
        /\ hist[b] = <<"fail">>
        /\ end_time[b]

----------------------------------------------------------------------------
(* C16 *)

\* C16 as stated: during the backoff delay the status is "retrying".
C16_RetryingOriginal ==
    \A b \in Boxes : pc[b] = "sleep" => status[b] = "retrying"

\* C16: the status of a box is always one of "pending", "running" and the
\* four terminal values; it stays "running" during the backoff delay after a
\* non-zero exit or a timeout on an attempt below max_retries, and it is
\* "running" while the next attempt's job runs.
C16_RunningDuringBackoff ==
    \A b \in Boxes :
        /\ status[b] \in {"pending", "running"} \cup Terminal
        /\ pc[b] \in {"sleep", "job"} => status[b] = "running"
        /\ pc[b] = "sleep" => Last(hist[b]) \in {"fail", "timeout"} /\ ShouldRetry(b)

\* A box in its backoff delay after a timeout.
C16_Witness ==
    \E b \in Boxes : pc[b] = "sleep" /\ Last(hist[b]) = "timeout" /\ status[b] = "running"

----------------------------------------------------------------------------
(* C17 *)

\* C17: a box in its backoff delay does not hold the lock, so the lock is
\* free for any other admitted box that is about to start an attempt or to
\* record an outcome.
C17_BackoffWithoutLock ==
    \A b \in Boxes :
        pc[b] = "sleep" =>
            /\ lock # b
            /\ \A c \in Boxes \ {b} :
                   pc[c] \in {"lockRun", "lockResult", "lockTimeout", "except"} => lock = 0

----------------------------------------------------------------------------
(* C18 *)

\* The fields of a box that print_summary reads, as one value.
ReportedFields(b) ==
    <<status[b], attempts[b], start_time[b], end_time[b], output[b],
      error_output[b], log_file[b]>>

\* C18 as stated: no field of a box that print_summary reads is ever assigned
\* outside the lock.
C18_AllUnderLockOriginal == unlocked = {}

\* C18: once the box exists, the fields print_summary reads change only in
\* steps of the box's own thread; status, start_time, end_time, output and
\* error_output are assigned only inside with self.lock blocks, and the two
\* fields assigned outside the lock are log_file and attempts.
C18_OwnThreadAndLock ==
    /\ [](unlocked \subseteq {"log_file", "attempts"})
    /\ [][\A b \in Boxes :
              ReportedFields(b)' # ReportedFields(b) =>
                  /\ pc[b] \notin {"idle", "done"}
                  /\ pc'[b] # pc[b]
                  /\ \A c \in Boxes \ {b} : pc'[c] = pc[c]]_vars

\* Both unlocked assignments have happened while another thread holds the lock.
C18_Witness ==
    /\ unlocked = {"log_file", "attempts"}
    /\ \E b \in Boxes : lock = b
    /\ \E c \in Boxes : lock # c /\ attempts[c] = 1 /\ log_file[c] /\ pc[c] = "lockRun"

----------------------------------------------------------------------------
(* C19 *)

\* C19: for every box, whatever the outcomes of its attempts: there are at
\* most max_retries attempts; every attempt that was followed by another one
\* exited non-zero or timed out (so none follows a success or an invocation
\* error); and once the thread has left the loop, a last attempt that exited
\* non-zero or timed out is attempt number max_retries, with status "failed"
\* for a non-zero exit and "timeout" for a timeout, whatever came before.
C19_RetryDecision ==
    \A b \in Boxes :
        /\ Len(hist[b]) <= max_retries
        /\ \A i \in 1..(Len(hist[b]) - 1) : hist[b][i] \in {"fail", "timeout"}
        /\ (pc[b] \in {"finally", "done"} /\ hist[b] # <<>>) =>
               /\ attempts[b] = Len(hist[b])
               /\ Last(hist[b]) = "fail" =>
                      Len(hist[b]) = max_retries /\ status[b] = "failed"
               /\ Last(hist[b]) = "timeout" =>
                      Len(hist[b]) = max_retries /\ status[b] = "timeout"
               /\ Last(hist[b]) = "raise" => status[b] = "error"
               /\ Last(hist[b]) = "ok" => status[b] = "success"

\* One box failed and then timed out, the other timed out and then failed.
C19_Witness ==
    /\ deployment_boxes = 2
    /\ pc[1] = "done" /\ hist[1] = <<"fail", "timeout">> /\ status[1] = "timeout"
    /\ pc[2] = "done" /\ hist[2] = <<"timeout", "fail">> /\ status[2] = "failed"

----------------------------------------------------------------------------
(* C20 *)

----------------------------------------------------------------------------
(* C21 *)

\* The number of times subprocess.run has been called for the job of box b:
\* the calls that have ended and the one in progress.
Invocations(b) == Len(hist[b]) + (IF pc[b] = "job" THEN 1 ELSE 0)

\* C21 as stated: in every state box.attempts is at most max_retries and
\* equals the number of invocations of the job of the box.
C21_AttemptsOriginal ==
    \A b \in Boxes : attempts[b] <= max_retries /\ attempts[b] = Invocations(b)

\* C21: box.attempts is at most max_retries; it changes only by one, in the
\* step that begins an attempt; and it equals the number of invocations of the
\* job, except from the assignment at line 398 until the job of that attempt
\* is invoked (the thread is at with self.lock, line 400), where it is one
\* more.
C21_Attempts ==
    /\ [](\A b \in Boxes :
              /\ attempts[b] <= max_retries
              /\ attempts[b] = Invocations(b) + (IF pc[b] = "lockRun" THEN 1 ELSE 0))
    /\ [][\A b \in Boxes :
              \/ attempts'[b] = attempts[b]
              \/ attempts'[b] = attempts[b] + 1 /\ pc'[b] = "lockRun"]_vars

\* A box has counted its second attempt and waits for the lock, which another
\* box holds during its delay: the job has been invoked once.
C21_Witness ==
    \E b \in Boxes :
        /\ pc[b] = "lockRun"
        /\ attempts[b] = 2
        /\ Invocations(b) = 1
        /\ lock \notin {0, b}

----------------------------------------------------------------------------
(* C22 *)

\* The status the code leaves a box with, read off the outcomes h of the
\* box's own job invocations: the branch the last one took, and the initial
\* "pending" when there was none.
FinalStatus(h) ==
    IF h = <<>> THEN "pending"
    ELSE CASE Last(h) = "ok" -> "success"
           [] Last(h) = "fail" -> "failed"
           [] Last(h) = "timeout" -> "timeout"
           [] Last(h) = "raise" -> "error"

\* C22: once the thread of a box has ended, the status and the attempt count
\* of the box are given by the box's own outcome sequence alone, for every
\* max_threads, every max_retries, every outcome of the other boxes and every
\* interleaving; so two boxes (or two runs) with the same outcome sequence end
\* with the same status and attempts.
C22_OutcomeIsFunction ==
    [](/\ \A b \in Boxes :
              pc[b] = "done" =>
                  /\ status[b] = FinalStatus(hist[b])
                  /\ attempts[b] = Len(hist[b])
       /\ \A b, c \in Boxes :
              (pc[b] = "done" /\ pc[c] = "done" /\ hist[b] = hist[c]) =>
                  /\ status[b] = status[c]
                  /\ attempts[b] = attempts[c])

\* Two boxes with the same outcomes, fail then timeout, ran one after the
\* other through a single permit and ended alike.
C22_Witness ==
    /\ max_threads = 1
    /\ deployment_boxes = 2
    /\ \A b \in Boxes :
           /\ pc[b] = "done"
           /\ hist[b] = <<"fail", "timeout">>
           /\ status[b] = "timeout"
           /\ attempts[b] = 2

----------------------------------------------------------------------------
(* C23 *)

\* C23: once a box is terminal and its thread has left the loop, box.output
\* and box.error_output are not left over from an earlier attempt: each is
\* either the initial empty list or what the last attempt produced.
C23_LastAttemptOutput ==
    \A b \in Boxes :
        (status[b] \in Terminal /\ pc[b] \in {"finally", "done"}) =>
            /\ output[b] \in {0, attempts[b]}
            /\ error_output[b] \in {0, attempts[b]}

----------------------------------------------------------------------------
(* C24 *)

\* C24 as stated: box.start_time is set exactly when box.attempts >= 1.
C24_StartTimeOriginal ==
    \A b \in Boxes : start_time[b] # 0 <=> attempts[b] >= 1

\* C24: box.start_time is assigned in the first attempt only and never changes
\* once set; when it is set box.attempts >= 1, and it is unset with
\* box.attempts >= 1 only while the first attempt has been counted and the
\* thread has not yet run the block of line 400.
C24_StartTime ==
    /\ [](\A b \in Boxes :
              /\ start_time[b] \in {0, 1}
              /\ start_time[b] # 0 => attempts[b] >= 1
              /\ (attempts[b] >= 1 /\ start_time[b] = 0) =>
                     pc[b] = "lockRun" /\ attempts[b] = 1)
    /\ [][\A b \in Boxes :
              start_time[b] # 0 => start_time'[b] = start_time[b]]_vars

\* The second attempt of a box is running with the start time of the first.
C24_Witness ==
    \E b \in Boxes :
        /\ pc[b] = "job"
        /\ attempts[b] = 2
        /\ start_time[b] = 1

----------------------------------------------------------------------------
(* C25 *)

\* The record that an attempt with outcome o leaves in the log file.
RecordOf(o) ==
    CASE o \in {"ok", "fail"} -> "attempt"
      [] o = "timeout" -> "timeout"

\* The attempts of box b whose record is due: those that have ended, less
\* the last one while the thread is on its way to the timeout block, and less
\* one that raised (the exception handler writes its record and may fail).
Recorded(b) ==
    Len(hist[b]) - (IF pc[b] = "lockTimeout" \/ (hist[b] # <<>> /\ Last(hist[b]) = "raise")
                    THEN 1 ELSE 0)

\* C25: the log file of a box holds one record per attempt that ended in
\* success, non-zero exit or timeout, in order and of the attempt's kind, the
\* last being absent only while the thread is on its way to the timeout block;
\* so each record is written before the next attempt starts.  The only other
\* record is the one of the exception handler, after them.  A step changes the
\* file only by appending one record, and only a step of the box's own thread
\* does.  A box that is success, failed or timeout has as many records as
\* attempts.
C25_LogRecords ==
    /\ [](\A b \in Boxes :
              /\ Len(log[b]) \in {Recorded(b), Recorded(b) + 1}
              /\ \A i \in 1..Recorded(b) : log[b][i] = RecordOf(hist[b][i])
              /\ Len(log[b]) = Recorded(b) + 1 =>
                     Last(log[b]) = "exception" /\ status[b] = "error"
              /\ status[b] \in {"success", "failed", "timeout"} =>
                     Len(log[b]) = attempts[b])
    /\ [][\A b \in Boxes :
              \/ log'[b] = log[b]
              \/ /\ \E r \in {"attempt", "timeout", "exception"} : log'[b] = Append(log[b], r)
                 /\ pc'[b] # pc[b]
                 /\ \A c \in Boxes \ {b} : pc'[c] = pc[c] /\ log'[c] = log[c]]_vars

\* A box that failed and then timed out has the two records, in that order.
C25_Witness ==
    \E b \in Boxes :
        /\ status[b] = "timeout"
        /\ attempts[b] = 2
        /\ log[b] = <<"attempt", "timeout">>

----------------------------------------------------------------------------
(* C26 *)

\* C26: the free permits are max_threads less the threads between their
\* acquire and their release, so never more than max_threads, and max_threads
\* again after the join.  A thread takes one permit when it leaves acquire(),
\* gives one back in the step that ends it, ends only from its finally clause
\* (whatever path led there) and does nothing once ended.
C26_ReleasedOnce ==
    /\ [](/\ semaphore = max_threads - Cardinality(Holders)
          /\ semaphore <= max_threads
          /\ Joined => semaphore = max_threads)
    /\ [][\A b \in Boxes :
              /\ (pc[b] = "acquire" /\ pc'[b] # "acquire") => semaphore' = semaphore - 1
              /\ (pc[b] # "done" /\ pc'[b] = "done") =>
                     pc[b] = "finally" /\ semaphore' = semaphore + 1
              /\ pc[b] = "done" => pc'[b] = "done"]_vars

\* After the join all permits are free; the exception handler of one box
\* itself raised (its record is missing from the log file).
C26_Witness ==
    /\ Joined
    /\ semaphore = max_threads
    /\ \E b \in Boxes :
           /\ status[b] = "error"
           /\ hist[b] = <<"raise">>
           /\ log[b] = <<>>

----------------------------------------------------------------------------
(* C27 *)

\* C27: when the job of a box raises on an attempt after the first, the
\* earlier ones having failed or timed out, the thread goes to the exception
\* handler and from there to its end: box.attempts stays that attempt's
\* number, whatever is left of max_retries, no delay follows (the delays are
\* those of the earlier attempts), and once the handler has run the status is
\* "error" with box.end_time set.
C27_ErrorOnLaterAttempt ==
    \A b \in Boxes :
        (Len(hist[b]) >= 2 /\ Last(hist[b]) = "raise") =>
            /\ \A i \in 1..(Len(hist[b]) - 1) : hist[b][i] \in {"fail", "timeout"}
            /\ pc[b] \in {"except", "finally", "done"}
            /\ attempts[b] = Len(hist[b])
            /\ sleeps[b] = Len(hist[b]) - 1
            /\ pc[b] # "except" => status[b] = "error" /\ end_time[b]

\* With three retries allowed, the job raised on the second attempt after a
\* timeout on the first; the thread has ended.
C27_Witness ==
    /\ max_retries = 3
    /\ \E b \in Boxes :
           /\ pc[b] = "done"
           /\ hist[b] = <<"timeout", "raise">>
           /\ status[b] = "error"
           /\ attempts[b] = 2
           /\ end_time[b]

----------------------------------------------------------------------------
(* C28 *)

\* C28: when parse_inventory returns an empty list, deploy_all returns at
\* once: no pre-stage has run, no thread is started, no summary is printed,
\* and the process ends with exit code 0.
C28_EmptyInventory ==
    /\ []((deployment_boxes = 0 /\ mainpc \notin {"parse", "exited"}) =>
              /\ mainpc = "done"
              /\ last_stage = "none"
              /\ stage_result = "none"
              /\ ~warned
              /\ started = 0
              /\ summary = <<>>
              /\ semaphore = max_threads
              /\ exit_code = 0)
    /\ [][(mainpc = "parse" /\ mainpc' # "exited" /\ deployment_boxes' = 0) =>
              mainpc' = "done" /\ exit_code' = 0]_vars

\* The run of an inventory without deployment boxes has ended.
C28_Witness ==
    /\ deployment_boxes = 0
    /\ mainpc = "done"
    /\ exit_code = 0
    /\ last_stage = "none"
    /\ summary = <<>>

====
